---- MODULE Spec2Model ----
(***************************************************************************)
(* A model of examples/api-logger.py, the hook that forwards Claude Code   *)
(* hook events to the conversation-logger API.                             *)
(*                                                                         *)
(* Text is a sequence of one-character strings, so that strip, lower,      *)
(* startswith, slicing, rfind and the "in" substring test are computed on  *)
(* characters as Python computes them.  Characters outside ASCII are named *)
(* ("o_acute", "inv_e" for the inverted exclamation mark, ...).            *)
(* Money is counted in units of 1e-7 USD, the finest grain of the pricing  *)
(* table, so that a figure rounded to 6 decimals is a multiple of 10.      *)
(***************************************************************************)
EXTENDS Integers, Sequences, FiniteSets, TLC

(***************************************************************************)
(* Bounds of the checked instance.                                         *)
(***************************************************************************)
MaxLines == 3
MaxCount == 2
MaxCacheRead == 5
MaxStopLines == 2
MaxRun == 84
MaxWords == 3
MaxLaunches == 3

\* the value of an expression, taken from the set that holds only it
the(S) == CHOOSE x \in S : TRUE

(***************************************************************************)
(* Python string primitives.                                               *)
(***************************************************************************)
LowerLetters ==
  << "a","b","c","d","e","f","g","h","i","j","k","l","m","n","o","p","q","r",
     "s","t","u","v","w","x","y","z",
     "a_acute","e_acute","i_acute","o_acute","u_acute","n_tilde" >>

UpperLetters ==
  << "A","B","C","D","E","F","G","H","I","J","K","L","M","N","O","P","Q","R",
     "S","T","U","V","W","X","Y","Z",
     "A_acute","E_acute","I_acute","O_acute","U_acute","N_tilde" >>

Whitespace == {" ", "\t", "\n"}

lower_char(c) ==
  IF \E i \in DOMAIN UpperLetters : UpperLetters[i] = c
  THEN LowerLetters[CHOOSE i \in DOMAIN UpperLetters : UpperLetters[i] = c]
  ELSE c

upper_char(c) ==
  IF \E i \in DOMAIN LowerLetters : LowerLetters[i] = c
  THEN UpperLetters[CHOOSE i \in DOMAIN LowerLetters : LowerLetters[i] = c]
  ELSE c

\* str.lower()
lower(s) == [i \in 1..Len(s) |-> lower_char(s[i])]

\* str.capitalize(): first character upper-cased, the rest lower-cased
capitalize(s) ==
  [i \in 1..Len(s) |-> IF i = 1 THEN upper_char(s[i]) ELSE lower_char(s[i])]

\* s[:n] for 0 <= n
prefix_slice(s, n) == SubSeq(s, 1, IF n < Len(s) THEN n ELSE Len(s))

\* s[n:] for 0 <= n
suffix_slice(s, n) == SubSeq(s, n + 1, Len(s))

\* str.lstrip(chars)
lstrip(s, chars) ==
  LET kept == {i \in 1..Len(s) : s[i] \notin chars}
  IN  IF kept = {} THEN << >>
      ELSE SubSeq(s, CHOOSE i \in kept : \A j \in kept : i <= j, Len(s))

\* str.strip(): whitespace removed at both ends
strip(s) ==
  LET kept == {i \in 1..Len(s) : s[i] \notin Whitespace}
  IN  IF kept = {} THEN << >>
      ELSE SubSeq(s, CHOOSE i \in kept : \A j \in kept : i <= j,
                     CHOOSE i \in kept : \A j \in kept : i >= j)

\* str.startswith(p)
startswith(s, p) == Len(p) <= Len(s) /\ SubSeq(s, 1, Len(p)) = p

\* str.rfind(c): 0-based index of the last occurrence, -1 when there is none
rfind(s, c) ==
  LET hits == {i \in 1..Len(s) : s[i] = c}
  IN  IF hits = {} THEN -1
      ELSE (CHOOSE i \in hits : \A j \in hits : i >= j) - 1

\* Python's "k in s" on strings
contains(s, k) ==
  \E i \in 1..(Len(s) - Len(k) + 1) : SubSeq(s, i, i + Len(k) - 1) = k

\* the string of n copies of the character c
repeat(c, n) == [i \in 1..n |-> c]

(***************************************************************************)
(* Usage snapshots.  A value of message.usage is None, a non-dict, or a    *)
(* dict: "has" is the set of token fields the dict carries, "n" their      *)
(* counts (0 for a field it does not carry) and "tier" the value of the    *)
(* service_tier key ("" when the dict has no such key).                    *)
(***************************************************************************)
UsageFields ==
  {"input_tokens", "output_tokens", "cache_creation_input_tokens",
   "cache_read_input_tokens"}

NoCounts == [f \in UsageFields |-> 0]

NoneUsage == [tag |-> "None", has |-> {}, n |-> NoCounts, tier |-> ""]

ListUsage == [tag |-> "list", has |-> {}, n |-> NoCounts, tier |-> ""]

EmptyDict == [tag |-> "dict", has |-> {}, n |-> NoCounts, tier |-> ""]

\* the dict that carries the fields of "has" with the counts of "n"
Dict(has, n, tier) ==
  [tag |-> "dict", has |-> has,
   n |-> [f \in UsageFields |-> IF f \in has THEN n[f] ELSE 0], tier |-> tier]

\* isinstance(u, dict)
is_dict(u) == u.tag = "dict"

\* bool(u): None and the empty dict are falsy
truthy(u) ==
  \/ u.tag = "list"
  \/ u.tag = "dict" /\ (u.has # {} \/ u.tier # "")

\* any(u.values()) of a dict
any_values(u) == (\E f \in u.has : u.n[f] # 0) \/ u.tier # ""

\* u.get(field, 0)
usage_get(u, field) == IF field \in u.has THEN u.n[field] ELSE 0

(***************************************************************************)
(* parse_usage_tokens                                                      *)
(***************************************************************************)
token_mapping ==
  << [usage_field |-> "input_tokens", otel_type |-> "input"],
     [usage_field |-> "output_tokens", otel_type |-> "output"],
     [usage_field |-> "cache_creation_input_tokens", otel_type |-> "cacheCreation"],
     [usage_field |-> "cache_read_input_tokens", otel_type |-> "cacheRead"] >>

\* a slip that records every mapped field, the zero ones too
parse_usage_tokens_keep_zero(usage_data) ==
  IF ~truthy(usage_data) \/ ~is_dict(usage_data) THEN << >>
  ELSE [i \in DOMAIN token_mapping |->
          [type |-> token_mapping[i].otel_type,
           token_count |-> usage_get(usage_data, token_mapping[i].usage_field)]]

parse_usage_tokens(usage_data) ==
  IF ~truthy(usage_data) \/ ~is_dict(usage_data) THEN << >>
  ELSE LET candidate(i) ==
             [type |-> token_mapping[i].otel_type,
              token_count |-> usage_get(usage_data, token_mapping[i].usage_field)]
           candidates == [i \in DOMAIN token_mapping |-> candidate(i)]
       IN  SelectSeq(candidates, LAMBDA r : r.token_count > 0)

(***************************************************************************)
(* estimate_cost_usd.  Rates per token in units of 1e-7 USD.               *)
(***************************************************************************)
DefaultModel == "claude-3-5-sonnet-20241022"

pricing ==
  [m \in {DefaultModel} |->
     [input |-> 30, output |-> 150, cache_read |-> 3, cache_write |-> 30]]

\* pricing.get(model, pricing[DefaultModel])
model_pricing(model) ==
  IF model \in DOMAIN pricing THEN pricing[model] ELSE pricing[DefaultModel]

\* round(x, 6) of a non-negative amount x given in units of 1e-7: the nearest
\* multiple of 10.  When x lies exactly halfway, the binary error of the float
\* sum decides the direction; tie_up is that direction.
round6(x, tie_up) ==
  LET q == x \div 10
      r == x % 10
  IN  IF r < 5 THEN 10 * q
      ELSE IF r > 5 THEN 10 * (q + 1)
      ELSE IF tie_up THEN 10 * (q + 1) ELSE 10 * q

\* a slip that prices cache reads at the cache-write rate
estimate_cost_usd_swapped(usage_data, model, tie_up) ==
  IF ~truthy(usage_data) \/ ~is_dict(usage_data) THEN 0
  ELSE LET row == model_pricing(model)
       IN  round6(usage_get(usage_data, "input_tokens") * row.input
                  + usage_get(usage_data, "output_tokens") * row.output
                  + usage_get(usage_data, "cache_read_input_tokens") * row.cache_write
                  + usage_get(usage_data, "cache_creation_input_tokens") * row.cache_write,
                  tie_up)

estimate_cost_usd(usage_data, model, tie_up) ==
  IF ~truthy(usage_data) \/ ~is_dict(usage_data) THEN 0
  ELSE LET row == model_pricing(model)
           t1 == 0 + usage_get(usage_data, "input_tokens") * row.input
           t2 == t1 + usage_get(usage_data, "output_tokens") * row.output
           t3 == t2 + usage_get(usage_data, "cache_read_input_tokens") * row.cache_read
           t4 == t3 + usage_get(usage_data, "cache_creation_input_tokens") * row.cache_write
       IN  round6(t4, tie_up)

(***************************************************************************)
(* extract_session_description                                             *)
(***************************************************************************)
prefixes_to_remove ==
  << <<"n","e","c","e","s","i","t","o">>,
     <<"q","u","i","e","r","o">>,
     <<"p","u","e","d","e","s">>,
     <<"a","y","u","d","a">>,
     <<"a","y","u_acute","d","a","m","e">>,
     <<"m","e"," ","p","u","e","d","e","s">>,
     <<"p","o","d","r","i_acute","a","s">>,
     <<"q","u","i","s","i","e","r","a">>,
     <<"t","e","n","g","o"," ","q","u","e">>,
     <<"h","o","l","a">>,
     <<"b","u","e","n","a","s">>,
     <<"g","o","o","d">>,
     <<"h","e","l","l","o">> >>

SinDescripcion ==
  <<"S","i","n"," ","d","e","s","c","r","i","p","c","i","o_acute","n">>

Ellipsis == <<".",".",".">>

default_max_length == 80

\* the loop over prefixes_to_remove: the first prefix the lower-cased text
\* starts with is cut off and the rest stripped; then the loop breaks
remove_prefix(content) ==
  the({ LET matching == {i \in DOMAIN prefixes_to_remove :
                          startswith(content_lower, prefixes_to_remove[i])}
        IN  IF matching = {} THEN content
            ELSE the({ strip(suffix_slice(content, Len(prefixes_to_remove[first])))
                       : first \in {i \in matching : \A j \in matching : i <= j} })
        : content_lower \in {lower(content)} })

\* lines 130-141: the text that fits is returned whole, a longer one is cut
\* at max_length, or at its last space when that lies beyond 70% of
\* max_length, and "..." is appended
shorten(cleaned, max_length) ==
  IF Len(cleaned) <= max_length THEN capitalize(cleaned)
  ELSE the({ the({ IF last_space * 10 > max_length * 7
                   THEN capitalize(prefix_slice(cleaned, last_space) \o Ellipsis)
                   ELSE capitalize(truncated \o Ellipsis)
                   : last_space \in {rfind(truncated, " ")} })
             : truncated \in {prefix_slice(cleaned, max_length)} })

\* each local of the function is bound once, in the order the code assigns it
extract_session_description(content, max_length) ==
  IF content = << >> THEN SinDescripcion
  ELSE the({ shorten(cleaned, max_length) :
             cleaned \in
               { lstrip(rest, {"inv_q", "?", "inv_e", "!"}) :
                 rest \in { remove_prefix(stripped) :
                            stripped \in {strip(content)} } } })

(***************************************************************************)
(* categorize_message                                                      *)
(***************************************************************************)
categories ==
  << [name |-> "Bug Fix", keywords |->
        << <<"e","r","r","o","r">>,
           <<"f","i","x">>,
           <<"b","u","g">>,
           <<"p","r","o","b","l","e","m","a">>,
           <<"f","a","l","l","a">>,
           <<"f","a","i","l">>,
           <<"r","e","p","a","r","a","r">>,
           <<"c","o","r","r","e","g","i","r">>,
           <<"s","o","l","u","c","i","o","n","a","r">>,
           <<"r","o","m","p","e">>,
           <<"b","r","o","k","e","n">>,
           <<"i","s","s","u","e">> >>],
     [name |-> "Feature", keywords |->
        << <<"a","g","r","e","g","a","r">>,
           <<"n","u","e","v","a">>,
           <<"n","u","e","v","o">>,
           <<"i","m","p","l","e","m","e","n","t","a","r">>,
           <<"c","r","e","a","r">>,
           <<"a","d","d">>,
           <<"c","r","e","a","t","e">>,
           <<"f","e","a","t","u","r","e">>,
           <<"f","u","n","c","i","o","n","a","l","i","d","a","d">>,
           <<"a","n_tilde","a","d","i","r">>,
           <<"d","e","v","e","l","o","p">>,
           <<"b","u","i","l","d">> >>],
     [name |-> "Config", keywords |->
        << <<"c","o","n","f","i","g","u","r","a","r">>,
           <<"c","o","n","f","i","g">>,
           <<"s","e","t","u","p">>,
           <<"i","n","s","t","a","l","a","r">>,
           <<"i","n","s","t","a","l","l">>,
           <<"d","o","c","k","e","r">>,
           <<"e","n","v","i","r","o","n","m","e","n","t">>,
           <<"e","n","v">>,
           <<"v","a","r","i","a","b","l","e">>,
           <<"s","e","t","t","i","n","g">>,
           <<"d","e","p","l","o","y">> >>],
     [name |-> "Docs", keywords |->
        << <<"d","o","c","u","m","e","n","t","a","c","i","o_acute","n">>,
           <<"d","o","c","s">>,
           <<"r","e","a","d","m","e">>,
           <<"e","x","p","l","i","c","a","r">>,
           <<"e","x","p","l","a","i","n">>,
           <<"d","o","c","u","m","e","n","t","a","t","i","o","n">>,
           <<"c","o","m","m","e","n","t">>,
           <<"c","o","m","e","n","t","a","r","i","o">>,
           <<"d","e","s","c","r","i","b","e">> >>],
     [name |-> "UI/UX", keywords |->
        << <<"d","i","s","e","n_tilde","o">>,
           <<"d","e","s","i","g","n">>,
           <<"f","r","o","n","t","e","n","d">>,
           <<"c","s","s">>,
           <<"s","t","y","l","e">>,
           <<"c","o","m","p","o","n","e","n","t","e">>,
           <<"c","o","m","p","o","n","e","n","t">>,
           <<"i","n","t","e","r","f","a","z">>,
           <<"u","i">>,
           <<"u","x">>,
           <<"v","i","s","u","a","l">>,
           <<"t","h","e","m","e">> >>],
     [name |-> "Refactor", keywords |->
        << <<"r","e","f","a","c","t","o","r","i","z","a","r">>,
           <<"r","e","f","a","c","t","o","r">>,
           <<"m","e","j","o","r","a","r">>,
           <<"i","m","p","r","o","v","e">>,
           <<"o","p","t","i","m","i","z","a","r">>,
           <<"o","p","t","i","m","i","z","e">>,
           <<"c","l","e","a","n">>,
           <<"r","e","s","t","r","u","c","t","u","r","e">>,
           <<"r","e","o","r","g","a","n","i","z","e">> >>],
     [name |-> "Debug", keywords |->
        << <<"d","e","b","u","g">>,
           <<"d","e","b","u","g","g","e","a","r">>,
           <<"i","n","v","e","s","t","i","g","a","t","e">>,
           <<"i","n","v","e","s","t","i","g","a","r">>,
           <<"a","n","a","l","i","z","a","r">>,
           <<"a","n","a","l","y","z","e">>,
           <<"c","h","e","c","k">>,
           <<"r","e","v","i","s","a","r">>,
           <<"t","r","a","c","e">>,
           <<"l","o","g">> >>],
     [name |-> "Database", keywords |->
        << <<"d","a","t","a","b","a","s","e">>,
           <<"d","b">>,
           <<"m","o","n","g","o">>,
           <<"s","q","l">>,
           <<"q","u","e","r","y">>,
           <<"t","a","b","l","a">>,
           <<"c","o","l","l","e","c","t","i","o","n">>,
           <<"s","c","h","e","m","a">>,
           <<"m","i","g","r","a","t","i","o","n">>,
           <<"d","a","t","o","s">>,
           <<"d","a","t","a">> >>],
     [name |-> "Security", keywords |->
        << <<"s","e","c","u","r","i","t","y">>,
           <<"a","u","t","h">>,
           <<"a","u","t","h","e","n","t","i","c","a","t","i","o","n">>,
           <<"a","u","t","h","o","r","i","z","a","t","i","o","n">>,
           <<"l","o","g","i","n">>,
           <<"s","e","g","u","r","i","d","a","d">>,
           <<"p","e","r","m","i","s","o","s">>,
           <<"p","e","r","m","i","s","s","i","o","n","s">>,
           <<"t","o","k","e","n">>,
           <<"o","a","u","t","h">> >>],
     [name |-> "Deploy", keywords |->
        << <<"d","e","p","l","o","y">>,
           <<"d","e","p","l","o","y","m","e","n","t">>,
           <<"p","r","o","d","u","c","t","i","o","n">>,
           <<"p","r","o","d">>,
           <<"r","e","l","e","a","s","e">>,
           <<"k","u","b","e","r","n","e","t","e","s">>,
           <<"k","8","s">>,
           <<"s","t","a","g","i","n","g">>,
           <<"p","u","b","l","i","s","h">> >>] >>

General == "General"

\* sum(1 for keyword in keywords if keyword in content_lower)
keyword_score(keywords, content_lower) ==
  Cardinality({j \in DOMAIN keywords : contains(content_lower, keywords[j])})

\* a slip that lets a later category win a tie
first_max_last_wins(score) ==
  LET category_scores == {i \in DOMAIN score : score[i] > 0}
  IN  CHOOSE i \in category_scores :
        \A j \in category_scores :
          \/ score[j] < score[i]
          \/ score[j] = score[i] /\ j <= i

\* max(category_scores, key=category_scores.get): category_scores holds, in
\* declaration order, the categories that score; max returns the first key
\* with the top score
first_max(score) ==
  LET category_scores == {i \in DOMAIN score : score[i] > 0}
  IN  CHOOSE i \in category_scores :
        \A j \in category_scores :
          \/ score[j] < score[i]
          \/ score[j] = score[i] /\ i <= j

\* the scores of the categories, in declaration order
category_score(content_lower) ==
  [i \in DOMAIN categories |->
     keyword_score(categories[i].keywords, content_lower)]

categorize_message(content) ==
  IF content = << >> THEN General
  ELSE the({ IF \A i \in DOMAIN score : score[i] = 0 THEN General
             ELSE categories[first_max(score)].name
             : score \in { category_score(content_lower) :
                           content_lower \in {lower(content)} } })
(***************************************************************************)
(* Transcript lines.  raw tells what json.loads makes of the stripped      *)
(* line: "blank" (skipped before parsing), "malformed" (JSONDecodeError)   *)
(* or "json", an object with the fields below.  A missing key is the       *)
(* default entry.get() gives: "" for timestamp, uuid and model, no items   *)
(* for content; has_message is the truth value of entry.get('message').    *)
(***************************************************************************)
TextItem(t) == [type |-> "text", text |-> t]

ToolUseItem == [type |-> "tool_use", text |-> << >>]

Blank ==
  [raw |-> "blank", type |-> "", has_message |-> FALSE, content |-> << >>,
   usage |-> NoneUsage, model |-> "", timestamp |-> "", uuid |-> ""]

Malformed ==
  [raw |-> "malformed", type |-> "", has_message |-> FALSE, content |-> << >>,
   usage |-> NoneUsage, model |-> "", timestamp |-> "", uuid |-> ""]

Entry(type, has_message, content, usage, model, timestamp, uuid) ==
  [raw |-> "json", type |-> type, has_message |-> has_message,
   content |-> content, usage |-> usage, model |-> model,
   timestamp |-> timestamp, uuid |-> uuid]

\* datetime.fromisoformat(ts.replace('Z', '+00:00')): the instant in
\* milliseconds for the timestamps that parse
iso_millis ==
  [ts \in {"2025-01-01T10:00:00.000Z", "2025-01-01T10:00:01.500Z",
           "2025-01-01T10:00:04.000Z"} |->
     CASE ts = "2025-01-01T10:00:00.000Z" -> 0
       [] ts = "2025-01-01T10:00:01.500Z" -> 1500
       [] ts = "2025-01-01T10:00:04.000Z" -> 4000]

parses(ts) == ts \in DOMAIN iso_millis

(***************************************************************************)
(* parse_transcript_for_last_assistant_message                             *)
(***************************************************************************)
\* the locals of the scan before the first line
scan_start ==
  [has_message |-> FALSE, content |-> << >>, timestamp |-> "", uuid |-> "",
   model |-> "", accumulated_usage |-> NoneUsage,
   first_timestamp |-> "", last_timestamp |-> ""]

RECURSIVE join_text(_)
\* the loop over content_array: the text of the items of type text, in order
join_text(content_array) ==
  IF content_array = << >> THEN << >>
  ELSE LET item == Head(content_array)
       IN  (IF item.type = "text" THEN item.text ELSE << >>)
           \o join_text(Tail(content_array))

\* a slip that keeps the first usage snapshot and ignores the later ones
scan_line_keep_first(acc, entry) ==
  IF entry.raw # "json" THEN acc
  ELSE IF ~(entry.type = "assistant" /\ entry.has_message) THEN acc
  ELSE
    LET text_content == join_text(entry.content)
        current_usage ==
          IF entry.usage.tag = "None" THEN EmptyDict ELSE entry.usage
        tracked ==
          [acc EXCEPT !.first_timestamp =
                        IF entry.timestamp # "" /\ acc.first_timestamp = ""
                        THEN entry.timestamp ELSE acc.first_timestamp,
                      !.last_timestamp =
                        IF entry.timestamp # "" THEN entry.timestamp
                        ELSE acc.last_timestamp,
                      !.accumulated_usage =
                        IF truthy(current_usage) /\ any_values(current_usage)
                           /\ ~truthy(acc.accumulated_usage)
                        THEN current_usage ELSE acc.accumulated_usage]
    IN  IF text_content = << >> THEN tracked
        ELSE IF acc.has_message /\ acc.content # << >>
        THEN [tracked EXCEPT !.content = acc.content \o text_content,
                             !.timestamp = entry.timestamp,
                             !.uuid = entry.uuid]
        ELSE [tracked EXCEPT !.has_message = TRUE,
                             !.content = text_content,
                             !.timestamp = entry.timestamp,
                             !.uuid = entry.uuid,
                             !.model = entry.model]

\* a slip that lets every chunk's usage, the empty ones too, replace the snapshot
scan_line_overwrite(acc, entry) ==
  IF entry.raw # "json" THEN acc
  ELSE IF ~(entry.type = "assistant" /\ entry.has_message) THEN acc
  ELSE
    LET text_content == join_text(entry.content)
        current_usage ==
          IF entry.usage.tag = "None" THEN EmptyDict ELSE entry.usage
        tracked ==
          [acc EXCEPT !.first_timestamp =
                        IF entry.timestamp # "" /\ acc.first_timestamp = ""
                        THEN entry.timestamp ELSE acc.first_timestamp,
                      !.last_timestamp =
                        IF entry.timestamp # "" THEN entry.timestamp
                        ELSE acc.last_timestamp,
                      !.accumulated_usage = current_usage]
    IN  IF text_content = << >> THEN tracked
        ELSE IF acc.has_message /\ acc.content # << >>
        THEN [tracked EXCEPT !.content = acc.content \o text_content,
                             !.timestamp = entry.timestamp,
                             !.uuid = entry.uuid]
        ELSE [tracked EXCEPT !.has_message = TRUE,
                             !.content = text_content,
                             !.timestamp = entry.timestamp,
                             !.uuid = entry.uuid,
                             !.model = entry.model]

\* the body of the loop over the lines of the file
scan_line(acc, entry) ==
  IF entry.raw # "json" THEN acc
  ELSE IF ~(entry.type = "assistant" /\ entry.has_message) THEN acc
  ELSE
    LET text_content == join_text(entry.content)
        entry_timestamp == entry.timestamp
        first_timestamp ==
          IF entry_timestamp # "" /\ acc.first_timestamp = ""
          THEN entry_timestamp ELSE acc.first_timestamp
        last_timestamp ==
          IF entry_timestamp # "" THEN entry_timestamp ELSE acc.last_timestamp
        current_usage ==
          IF entry.usage.tag = "None" THEN EmptyDict ELSE entry.usage
        accumulated_usage ==
          IF truthy(current_usage) /\ any_values(current_usage)
          THEN current_usage ELSE acc.accumulated_usage
        tracked == [acc EXCEPT !.first_timestamp = first_timestamp,
                               !.last_timestamp = last_timestamp,
                               !.accumulated_usage = accumulated_usage]
    IN  IF text_content = << >> THEN tracked
        ELSE IF acc.has_message /\ acc.content # << >>
        THEN [tracked EXCEPT !.content = acc.content \o text_content,
                             !.timestamp = entry.timestamp,
                             !.uuid = entry.uuid]
        ELSE [tracked EXCEPT !.has_message = TRUE,
                             !.content = text_content,
                             !.timestamp = entry.timestamp,
                             !.uuid = entry.uuid,
                             !.model = entry.model]

RECURSIVE scan_until_malformed(_, _)
\* a slip that lets a line that fails to parse end the scan
scan_until_malformed(acc, lines) ==
  IF lines = << >> THEN acc
  ELSE IF Head(lines).raw = "malformed" THEN acc
  ELSE scan_until_malformed(scan_line(acc, Head(lines)), Tail(lines))

RECURSIVE scan(_, _)
\* the for loop: lines folded in file order
scan(acc, lines) ==
  IF lines = << >> THEN acc
  ELSE scan(scan_line(acc, Head(lines)), Tail(lines))

\* the value returned when last_assistant_message is None
NoMessage ==
  [none |-> TRUE, content |-> << >>, timestamp |-> "", uuid |-> "",
   model |-> "", has_usage |-> FALSE, usage |-> EmptyDict,
   duration_ms |-> 0, cost_usd |-> 0]

\* a slip that returns a message with empty content where the code returns None
finish_scan_empty_message(acc, tie_up) ==
  [none |-> FALSE, content |-> acc.content, timestamp |-> acc.timestamp,
   uuid |-> acc.uuid, model |-> acc.model,
   has_usage |-> truthy(acc.accumulated_usage),
   usage |-> IF truthy(acc.accumulated_usage)
             THEN acc.accumulated_usage ELSE EmptyDict,
   duration_ms |-> 0,
   cost_usd |-> estimate_cost_usd(acc.accumulated_usage, acc.model, tie_up)]

\* the block after the loop: usage, duration_ms and cost_usd are set on the
\* message only when both a message and a usage snapshot were accumulated
finish_scan(acc, tie_up) ==
  IF ~acc.has_message THEN NoMessage
  ELSE
    LET base == [none |-> FALSE, content |-> acc.content,
                 timestamp |-> acc.timestamp, uuid |-> acc.uuid,
                 model |-> acc.model, has_usage |-> FALSE,
                 usage |-> EmptyDict, duration_ms |-> 0, cost_usd |-> 0]
        duration_ms ==
          IF /\ acc.first_timestamp # ""
             /\ acc.last_timestamp # ""
             /\ acc.first_timestamp # acc.last_timestamp
             /\ parses(acc.first_timestamp)
             /\ parses(acc.last_timestamp)
          THEN iso_millis[acc.last_timestamp] - iso_millis[acc.first_timestamp]
          ELSE 0
    IN  IF truthy(acc.accumulated_usage)
        THEN [base EXCEPT !.has_usage = TRUE,
                          !.usage = acc.accumulated_usage,
                          !.duration_ms = duration_ms,
                          !.cost_usd = estimate_cost_usd(acc.accumulated_usage,
                                                         acc.model, tie_up)]
        ELSE base

\* a slip that keeps only the text of the latest chunk
parse_transcript_latest_chunk(file, tie_up) ==
  IF file.state # "ok" THEN NoMessage
  ELSE LET full == finish_scan(scan(scan_start, file.lines), tie_up)
           texts == SelectSeq(file.lines,
                      LAMBDA e : e.raw = "json" /\ e.type = "assistant"
                                 /\ e.has_message /\ join_text(e.content) # << >>)
       IN  IF full.none THEN full
           ELSE [full EXCEPT !.content = join_text(texts[Len(texts)].content)]

\* file.state is "absent" (os.path.exists is false), "unreadable" (open
\* raises, caught by the outer except) or "ok"
parse_transcript_for_last_assistant_message(file, tie_up) ==
  IF file.state = "absent" THEN NoMessage
  ELSE IF file.state = "unreadable" THEN NoMessage
  ELSE finish_scan(scan(scan_start, file.lines), tie_up)

(***************************************************************************)
(* The hook process.  One invocation reads one JSON object from stdin,     *)
(* asks GET /health, and POSTs the records of its hook event.              *)
(***************************************************************************)
VARIABLES
  stdin,          \* what the host wrote to stdin, and the transcript file
  pc,             \* position of main()
  health,         \* outcome of GET /health, "" before the call
  assistant_msg,  \* result of parse_transcript_for_last_assistant_message
  token_records,  \* result of parse_usage_tokens in the Stop branch
  posts,          \* the POSTs this invocation has issued, in order
  exit_code,      \* process exit status, -1 while running
  now,            \* wall clock, in seconds
  launches,       \* invocations started so far
  history,        \* the invocations that have exited
  call,           \* function under test and its arguments
  ret             \* its return value

vars ==
  << stdin, pc, health, assistant_msg, token_records, posts, exit_code,
     now, launches, history, call, ret >>

str_unknown == <<"u","n","k","n","o","w","n">>

prompt_not_captured ==
  <<"[","p","r","o","m","p","t"," ","n","o","t"," ","c","a","p","t","u","r","e","d","]">>

str_Bash == <<"B","a","s","h">>

str_Edit == <<"E","d","i","t">>

str_Write == <<"W","r","i","t","e">>

str_Read == <<"R","e","a","d">>

str_Grep == <<"G","r","e","p">>

Digits == <<"0","1","2","3","4","5","6","7","8","9">>

RECURSIVE str_int(_)
\* str(n) of a non-negative integer, as the f-string formats it
str_int(n) ==
  IF n < 10 THEN << Digits[n + 1] >>
  ELSE str_int(n \div 10) \o << Digits[(n % 10) + 1] >>

\* the characters of an OpenTelemetry token type
otel_chars(type) ==
  CASE type = "input" -> <<"i","n","p","u","t">>
    [] type = "output" -> <<"o","u","t","p","u","t">>
    [] type = "cacheCreation" ->
         <<"c","a","c","h","e","C","r","e","a","t","i","o","n">>
    [] type = "cacheRead" -> <<"c","a","c","h","e","R","e","a","d">>

\* d.get(key, default) on the stdin object
input_get(d, key, default) == IF key \in d.has THEN d[key] ELSE default

\* os.getcwd() of the hook process
getcwd == <<"srv", "hooks">>

\* os.path.basename of a path given by its segments
basename(path) == IF path = << >> THEN "" ELSE path[Len(path)]

session_id_of(d) == input_get(d, "session_id", "unknown")

hook_event_of(d) == input_get(d, "hook_event_name", "unknown")

project_name_of(d) == basename(input_get(d, "cwd", getcwd))

transcript_path_of(d) == input_get(d, "transcript_path", "")

\* metadata of a record; a key the branch does not set is left at its default
NoMetadata ==
  [source |-> "", model |-> "", usage |-> EmptyDict, uuid |-> "",
   cost_usd |-> 0, duration_ms |-> 0, token_type |-> "", token_count |-> 0,
   timestamp |-> "", tool_name |-> << >>, start_source |-> << >>]

\* a POST as the sink sees it; delivered is what the sender returns
Post(endpoint, d, hook_event, message_type, content, metadata, delivered) ==
  [endpoint |-> endpoint, session_id |-> session_id_of(d),
   project_name |-> project_name_of(d), hook_event |-> hook_event,
   message_type |-> message_type, content |-> content,
   metadata |-> metadata, description |-> << >>, category |-> "",
   updated_at |-> 0, delivered |-> delivered]

\* what one POST can come to: a status code, or an exception of requests
DeliveryOutcomes == {"200", "201", "202", "500", "timeout"}

HealthOutcomes == {"200", "503", "network_error"}

\* the return value of send_to_api for an outcome of requests.post
send_to_api(outcome) == outcome \in {"200", "202"}

\* the return value of send_session_description_update
send_session_description_update(outcome) == outcome \in {"200", "201", "202"}

(***************************************************************************)
(* Inputs of the checked instance.                                         *)
(***************************************************************************)
OtherModel == "claude-opus-4-20250514"

T1 == "2025-01-01T10:00:00.000Z"

T2 == "2025-01-01T10:00:01.500Z"

T3 == "2025-01-01T10:00:04.000Z"

Counts(i, o, cc, cr) ==
  [f \in UsageFields |->
     CASE f = "input_tokens" -> i
       [] f = "output_tokens" -> o
       [] f = "cache_creation_input_tokens" -> cc
       [] f = "cache_read_input_tokens" -> cr]

UserLine ==
  Entry("user", TRUE, << TextItem(<<"Q">>) >>, NoneUsage, "", T1, "u0")

\* first chunk of a streamed reply: text, empty usage, no model
ChunkHe ==
  Entry("assistant", TRUE, << TextItem(<<"H","e">>) >>, EmptyDict, "", T1, "u1")

\* closing chunk: text and the authoritative usage
ChunkLlo ==
  Entry("assistant", TRUE, << TextItem(<<"l","l","o">>) >>,
        Dict({"input_tokens", "output_tokens"}, Counts(10, 5, 0, 0), ""),
        DefaultModel, T2, "u2")

\* text around a tool call, no usage key, no timestamp, no uuid
ChunkMixed ==
  Entry("assistant", TRUE,
        << TextItem(<<"a">>), ToolUseItem, TextItem(<<"b">>) >>,
        NoneUsage, OtherModel, "", "")

\* a tool call alone, with an all-zero usage
ChunkTool ==
  Entry("assistant", TRUE, << TextItem(<< >>), ToolUseItem >>,
        Dict(UsageFields, Counts(0, 0, 0, 0), ""), DefaultModel, T3, "u3")

\* usage alone, with a timestamp that does not parse
ChunkUsage ==
  Entry("assistant", TRUE, << >>,
        Dict(UsageFields, Counts(2, 0, 3, 5), ""), "", "not-a-date", "u4")

\* text with zero counts and a service tier
ChunkTier ==
  Entry("assistant", TRUE, << TextItem(<<"!">>) >>,
        Dict(UsageFields, Counts(0, 0, 0, 0), "standard"), DefaultModel, T3, "u5")

\* an assistant line whose message is missing
ChunkNoMessage == Entry("assistant", FALSE, << >>, NoneUsage, "", T2, "u6")

LineSet ==
  {Blank, Malformed, UserLine, ChunkHe, ChunkLlo, ChunkMixed,
   ChunkTool, ChunkUsage, ChunkTier, ChunkNoMessage}

TranscriptsUpTo(n) == UNION {[1..k -> LineSet] : k \in 0..n}

Transcripts == TranscriptsUpTo(MaxLines)

AbsentFile == [state |-> "absent", lines |-> << >>]

UnreadableFile == [state |-> "unreadable", lines |-> << >>]

Files ==
  {AbsentFile, UnreadableFile} \cup {[state |-> "ok", lines |-> t] : t \in Transcripts}

\* the transcripts the Stop events of the process come with
StopFiles ==
  {AbsentFile, UnreadableFile}
  \cup {[state |-> "ok", lines |-> t] : t \in TranscriptsUpTo(MaxStopLines)}

p_empty == << >>

p_short == <<"o","k">>

\* 13 characters, 10 once stripped
p_ten == <<" "," ","f","i","x"," ","i","t"," ","n","o","w","\n">>

p_eleven == <<"f","i","x"," ","t","h","e"," ","b","u","g">>

\* 89 characters
p_long ==
  <<"inv_e","H","o","l","a","!"," ","n","e","c","e","s","i","t","o"," ",
    "a","y","u","d","a"," ","c","o","n"," ","e","l"," ","l","o","g","i","n",
    " ","d","e"," ","u","s","u","a","r","i","o","s"," ","p","o","r","q","u",
    "e"," ","l","a"," ","p","a","n","t","a","l","l","a"," ","q","u","e","d",
    "a"," ","e","n"," ","b","l","a","n","c","o"," ","s","i","e","m","p","r",
    "e">>

Prompts == {p_empty, p_short, p_ten, p_eleven, p_long}

NoToolInput == [has |-> {}, command |-> << >>, file_path |-> << >>]

ToolInputs ==
  {NoToolInput,
   [has |-> {"command"}, command |-> <<"l","s">>, file_path |-> << >>],
   [has |-> {"file_path"}, command |-> << >>, file_path |-> <<"a",".","p","y">>]}

\* the stdin object with the keys of "has"; the other fields are not read
Stdin(kind, has, session_id, hook_event_name, transcript_path, prompt, tool_name, tool_input, source, file) ==
  [kind |-> kind, has |-> has, session_id |-> session_id,
   hook_event_name |-> hook_event_name, cwd |-> <<"home", "dev", "shop">>,
   transcript_path |-> transcript_path, prompt |-> prompt,
   tool_name |-> tool_name, tool_input |-> tool_input, source |-> source,
   file |-> file]

BadStdin(kind) ==
  Stdin(kind, {}, "", "", "", << >>, << >>, NoToolInput, << >>, AbsentFile)

Common == {"session_id", "hook_event_name", "cwd"}

Event(name) ==
  Stdin("object", Common, "s1", name, "", << >>, << >>, NoToolInput, << >>,
        AbsentFile)

StopStdin ==
  {Event("Stop")}
  \cup {Stdin("object", Common \cup {"transcript_path"}, "s1", "Stop",
              "/t.jsonl", << >>, << >>, NoToolInput, << >>, f) : f \in StopFiles}

PromptStdin ==
  {Event("UserPromptSubmit")}
  \cup {Stdin("object", Common \cup {"prompt"}, s, "UserPromptSubmit", "",
              p, << >>, NoToolInput, << >>, AbsentFile) :
          s \in {"s1", "s2"}, p \in Prompts}

ToolStdin ==
  {Event("PostToolUse")}
  \cup {Stdin("object", Common \cup {"tool_name", "tool_input"}, "s1",
              "PostToolUse", "", << >>, t, i, << >>, AbsentFile) :
          t \in {str_Bash, str_Edit, str_Grep}, i \in ToolInputs}

SessionStdin ==
  {Event("SessionStart"),
   Stdin("object", Common \cup {"source"}, "s1", "SessionStart", "", << >>,
         << >>, NoToolInput, <<"s","t","a","r","t","u","p">>, AbsentFile),
   Stdin("object", {"hook_event_name"}, "", "SessionStart", "", << >>,
         << >>, NoToolInput, << >>, AbsentFile)}

OtherStdin ==
  {Event("SessionEnd"), Event("PreToolUse"), Event("Notification"),
   Stdin("object", {"session_id", "cwd"}, "s1", "", "", << >>, << >>,
         NoToolInput, << >>, AbsentFile)}

AllStdin ==
  {BadStdin("malformed"), BadStdin("not_object")}
  \cup StopStdin \cup PromptStdin \cup ToolStdin \cup SessionStdin \cup OtherStdin

(***************************************************************************)
(* main()                                                                  *)
(***************************************************************************)
Fresh(input) ==
  /\ stdin = input
  /\ pc = "start"
  /\ health = ""
  /\ assistant_msg = NoMessage
  /\ token_records = << >>
  /\ posts = << >>
  /\ exit_code = -1

NoCall ==
  [fn |-> "none", returned |-> FALSE, usage |-> NoneUsage, model |-> "",
   content |-> << >>, file |-> AbsentFile]

Init ==
  /\ \E input \in AllStdin : Fresh(input)
  /\ now = 0
  /\ launches = 1
  /\ history = << >>
  /\ call = NoCall
  /\ ret = 0

host == << now, launches, history, call, ret >>

\* json.load(sys.stdin) and the reads of input_data; anything but a JSON
\* object raises and lands in the handler at the end of main
ReadInput ==
  /\ pc = "start"
  /\ pc' = IF stdin.kind = "object" THEN "health" ELSE "except"
  /\ UNCHANGED << stdin, health, assistant_msg, token_records, posts,
                  exit_code, host >>

\* except Exception: print the error, sys.exit(0)
HandleException ==
  /\ pc = "except"
  /\ pc' = "exited"
  /\ exit_code' = 0
  /\ UNCHANGED << stdin, health, assistant_msg, token_records, posts, host >>

\* a slip that lets a failed health check fall through to the handlers
CheckHealthUngated ==
  /\ pc = "health"
  /\ \E outcome \in HealthOutcomes :
       /\ health' = outcome
       /\ pc' = "dispatch"
       /\ exit_code' = exit_code
  /\ UNCHANGED << stdin, assistant_msg, token_records, posts, host >>

\* requests.get(/health): any status but 200, or any exception, is sys.exit(0)
CheckHealth ==
  /\ pc = "health"
  /\ \E outcome \in HealthOutcomes :
       /\ health' = outcome
       /\ IF outcome = "200"
          THEN pc' = "dispatch" /\ exit_code' = exit_code
          ELSE pc' = "exited" /\ exit_code' = 0
  /\ UNCHANGED << stdin, assistant_msg, token_records, posts, host >>

\* the Stop branch up to its first POST
ParseTranscript ==
  /\ pc = "dispatch"
  /\ hook_event_of(stdin) = "Stop"
  /\ transcript_path_of(stdin) # ""
  /\ \E tie_up \in BOOLEAN :
       assistant_msg' =
         parse_transcript_for_last_assistant_message(stdin.file, tie_up)
  /\ pc' = IF assistant_msg'.none THEN "exit" ELSE "send_assistant"
  /\ UNCHANGED << stdin, health, token_records, posts, exit_code, host >>

\* assistant_msg.get('usage', {}), .get('cost_usd', 0.0), .get('duration_ms', 0)
msg_usage(msg) == IF msg.has_usage THEN msg.usage ELSE EmptyDict

msg_cost_usd(msg) == IF msg.has_usage THEN msg.cost_usd ELSE 0

msg_duration_ms(msg) == IF msg.has_usage THEN msg.duration_ms ELSE 0

\* a slip that gives up on the token records when the assistant record
\* was not delivered
SendAssistantOrGiveUp ==
  /\ pc = "send_assistant"
  /\ \E outcome \in DeliveryOutcomes :
       posts' = Append(posts,
         Post(<<"log">>, stdin, "Stop", "assistant", assistant_msg.content,
              [NoMetadata EXCEPT !.source = "stop_hook_assistant",
                                 !.model = assistant_msg.model,
                                 !.usage = msg_usage(assistant_msg),
                                 !.uuid = assistant_msg.uuid,
                                 !.cost_usd = msg_cost_usd(assistant_msg),
                                 !.duration_ms = msg_duration_ms(assistant_msg)],
              send_to_api(outcome)))
  /\ token_records' =
       IF truthy(msg_usage(assistant_msg))
       THEN parse_usage_tokens(msg_usage(assistant_msg)) ELSE << >>
  /\ pc' = IF token_records' = << >> \/ ~posts'[1].delivered
           THEN "exit" ELSE "send_tokens"
  /\ UNCHANGED << stdin, health, assistant_msg, exit_code, host >>

\* the assistant record, then the token records are derived
SendAssistant ==
  /\ pc = "send_assistant"
  /\ \E outcome \in DeliveryOutcomes :
       posts' = Append(posts,
         Post(<<"log">>, stdin, "Stop", "assistant", assistant_msg.content,
              [NoMetadata EXCEPT !.source = "stop_hook_assistant",
                                 !.model = assistant_msg.model,
                                 !.usage = msg_usage(assistant_msg),
                                 !.uuid = assistant_msg.uuid,
                                 !.cost_usd = msg_cost_usd(assistant_msg),
                                 !.duration_ms = msg_duration_ms(assistant_msg)],
              send_to_api(outcome)))
  /\ token_records' =
       IF truthy(msg_usage(assistant_msg))
       THEN parse_usage_tokens(msg_usage(assistant_msg)) ELSE << >>
  /\ pc' = IF token_records' = << >> THEN "exit" ELSE "send_tokens"
  /\ UNCHANGED << stdin, health, assistant_msg, exit_code, host >>

\* one turn of the loop over token_records
SendTokenUsage ==
  /\ pc = "send_tokens"
  /\ LET token_record == token_records[Len(posts)]
     IN  \E outcome \in DeliveryOutcomes :
           posts' = Append(posts,
             Post(<<"token-usage">>, stdin, "TokenUsage", "token_metric",
                  <<"T","o","k","e","n"," ","u","s","a","g","e",":"," ">>
                    \o otel_chars(token_record.type) \o <<" ","="," ">>
                    \o str_int(token_record.token_count),
                  [NoMetadata EXCEPT
                     !.source = "opentelemetry_token_tracking",
                     !.model = assistant_msg.model,
                     !.token_type = token_record.type,
                     !.token_count = token_record.token_count,
                     !.cost_usd = msg_cost_usd(assistant_msg),
                     !.duration_ms = msg_duration_ms(assistant_msg),
                     !.uuid = assistant_msg.uuid,
                     !.timestamp = assistant_msg.timestamp],
                  send_to_api(outcome)))
  /\ pc' = IF Len(posts') > Len(token_records) THEN "exit" ELSE "send_tokens"
  /\ UNCHANGED << stdin, health, assistant_msg, token_records, exit_code, host >>

prompt_of(d) == input_get(d, "prompt", prompt_not_captured)

\* a slip that measures the prompt without trimming it
SendUserPromptUntrimmed ==
  /\ pc = "dispatch"
  /\ ~(hook_event_of(stdin) = "Stop" /\ transcript_path_of(stdin) # "")
  /\ hook_event_of(stdin) = "UserPromptSubmit"
  /\ \E outcome \in DeliveryOutcomes :
       posts' = Append(posts,
         Post(<<"log">>, stdin, hook_event_of(stdin), "user", prompt_of(stdin),
              [NoMetadata EXCEPT !.source = "user_prompt_hook"],
              send_to_api(outcome)))
  /\ pc' = IF prompt_of(stdin) # << >> /\ Len(prompt_of(stdin)) > 10
           THEN "send_description" ELSE "exit"
  /\ UNCHANGED << stdin, health, assistant_msg, token_records, exit_code, host >>

\* the user record of the UserPromptSubmit branch
SendUserPrompt ==
  /\ pc = "dispatch"
  /\ ~(hook_event_of(stdin) = "Stop" /\ transcript_path_of(stdin) # "")
  /\ hook_event_of(stdin) = "UserPromptSubmit"
  /\ \E outcome \in DeliveryOutcomes :
       posts' = Append(posts,
         Post(<<"log">>, stdin, hook_event_of(stdin), "user", prompt_of(stdin),
              [NoMetadata EXCEPT !.source = "user_prompt_hook"],
              send_to_api(outcome)))
  /\ pc' = IF prompt_of(stdin) # << >> /\ Len(strip(prompt_of(stdin))) > 10
           THEN "send_description" ELSE "exit"
  /\ UNCHANGED << stdin, health, assistant_msg, token_records, exit_code, host >>

\* the body send_session_description_update posts
DescriptionPost(d, description, category, updated_at, delivered) ==
  [endpoint |-> <<"sessions", session_id_of(d), "description">>,
   session_id |-> session_id_of(d), project_name |-> project_name_of(d),
   hook_event |-> "", message_type |-> "", content |-> << >>,
   metadata |-> NoMetadata, description |-> description,
   category |-> category, updated_at |-> updated_at, delivered |-> delivered]

\* extract_session_description, categorize_message and the description update
SendDescription ==
  /\ pc = "send_description"
  /\ \E description \in {extract_session_description(prompt_of(stdin),
                                                      default_max_length)},
        category \in {categorize_message(prompt_of(stdin))},
        outcome \in DeliveryOutcomes :
       posts' = Append(posts,
         DescriptionPost(stdin, description, category, now,
                         send_session_description_update(outcome)))
  /\ pc' = "exit"
  /\ UNCHANGED << stdin, health, assistant_msg, token_records, exit_code, host >>

\* the readable summary of a tool call
tool_summary(tool_name, tool_input) ==
  IF tool_name = str_Bash
  THEN <<"B","a","s","h",":"," ">>
         \o (IF "command" \in tool_input.has THEN tool_input.command ELSE << >>)
  ELSE IF tool_name \in {str_Edit, str_Write, str_Read}
  THEN tool_name \o <<":"," ">>
         \o (IF "file_path" \in tool_input.has THEN tool_input.file_path ELSE << >>)
  ELSE <<"U","s","e","d"," ","t","o","o","l",":"," ">> \o tool_name

\* the PostToolUse branch
SendToolUse ==
  /\ pc = "dispatch"
  /\ ~(hook_event_of(stdin) = "Stop" /\ transcript_path_of(stdin) # "")
  /\ hook_event_of(stdin) = "PostToolUse"
  /\ LET tool_name == input_get(stdin, "tool_name", str_unknown)
         tool_input == input_get(stdin, "tool_input", NoToolInput)
     IN  \E outcome \in DeliveryOutcomes :
           posts' = Append(posts,
             Post(<<"log">>, stdin, hook_event_of(stdin), "tool",
                  tool_summary(tool_name, tool_input),
                  [NoMetadata EXCEPT !.tool_name = tool_name,
                                     !.source = "tool_hook"],
                  send_to_api(outcome)))
  /\ pc' = "exit"
  /\ UNCHANGED << stdin, health, assistant_msg, token_records, exit_code, host >>

\* the SessionStart branch
SendSessionStart ==
  /\ pc = "dispatch"
  /\ ~(hook_event_of(stdin) = "Stop" /\ transcript_path_of(stdin) # "")
  /\ hook_event_of(stdin) = "SessionStart"
  /\ LET source == input_get(stdin, "source", str_unknown)
     IN  \E outcome \in DeliveryOutcomes :
           posts' = Append(posts,
             Post(<<"log">>, stdin, hook_event_of(stdin), "system",
                  <<"S","e","s","s","i","o","n"," ","s","t","a","r","t","e","d",
                    " ","(","s","o","u","r","c","e",":"," ">> \o source \o <<")">>,
                  [NoMetadata EXCEPT !.source = "session_start_hook",
                                     !.start_source = source],
                  send_to_api(outcome)))
  /\ pc' = "exit"
  /\ UNCHANGED << stdin, health, assistant_msg, token_records, exit_code, host >>

\* no branch of the if/elif chain matches: nothing is sent
NoBranch ==
  /\ pc = "dispatch"
  /\ ~(hook_event_of(stdin) = "Stop" /\ transcript_path_of(stdin) # "")
  /\ hook_event_of(stdin) \notin {"UserPromptSubmit", "PostToolUse", "SessionStart"}
  /\ pc' = "exit"
  /\ UNCHANGED << stdin, health, assistant_msg, token_records, posts,
                  exit_code, host >>

\* a slip that reports the outcome of the run in the exit status
ExitWithStatus ==
  /\ pc = "exit"
  /\ pc' = "exited"
  /\ exit_code' = IF \E i \in DOMAIN posts : ~posts[i].delivered THEN 1 ELSE 0
  /\ UNCHANGED << stdin, health, assistant_msg, token_records, posts, host >>

\* the sys.exit(0) that closes the try block
Exit ==
  /\ pc = "exit"
  /\ pc' = "exited"
  /\ exit_code' = 0
  /\ UNCHANGED << stdin, health, assistant_msg, token_records, posts, host >>

Next ==
  \/ ReadInput
  \/ HandleException
  \/ CheckHealth
  \/ ParseTranscript
  \/ SendAssistant
  \/ SendTokenUsage
  \/ SendUserPrompt
  \/ SendDescription
  \/ SendToolUse
  \/ SendSessionStart
  \/ NoBranch
  \/ Exit

Spec == Init /\ [][Next]_vars

\* main is sequential code and every network call has a timeout: a process
\* that can take its next step takes it
FairSpec == Init /\ [][Next]_vars /\ WF_vars(Next)

(***************************************************************************)
(* The host: hook events of one session arrive one after another, each     *)
(* handled by a new process.  No state of a process outlives it; history   *)
(* is the observer's record of what each invocation was given and did.     *)
(***************************************************************************)
SeqStdin ==
  {BadStdin("malformed"), Event("SessionStart"), Event("SessionEnd"),
   Event("PostToolUse"),
   Stdin("object", Common \cup {"transcript_path"}, "s1", "Stop", "/t.jsonl",
         << >>, << >>, NoToolInput, << >>,
         [state |-> "ok", lines |-> << ChunkLlo >>])}
  \cup {Stdin("object", Common \cup {"prompt"}, "s1", "UserPromptSubmit", "",
              p, << >>, NoToolInput, << >>, AbsentFile) :
          p \in {p_short, p_eleven}}

InitSeq ==
  /\ \E input \in SeqStdin : Fresh(input)
  /\ now = 0
  /\ launches = 1
  /\ history = << >>
  /\ call = NoCall
  /\ ret = 0

\* seconds that pass between two hook events
Gaps == {2, 4}

\* the host runs the hook again for the next event; an invocation that
\* posted is remembered with the time it ran
Relaunch ==
  /\ pc = "exited"
  /\ launches < MaxLaunches
  /\ history' = IF posts # << >>
                THEN Append(history, [stdin |-> stdin, at |-> now])
                ELSE history
  /\ launches' = launches + 1
  /\ \E gap \in Gaps : now' = now + gap
  /\ \E input \in SeqStdin :
       /\ stdin' = input
       /\ pc' = "start"
       /\ health' = ""
       /\ assistant_msg' = NoMessage
       /\ token_records' = << >>
       /\ posts' = << >>
       /\ exit_code' = -1
  /\ UNCHANGED << call, ret >>

NextSeq == Next \/ Relaunch

SpecSeq == InitSeq /\ [][NextSeq]_vars

(***************************************************************************)
(* The functions on their own: one call of one function per behaviour.     *)
(***************************************************************************)
Usages ==
  {NoneUsage, ListUsage}
  \cup {Dict(has, Counts(i, o, cc, cr), "") :
          has \in SUBSET UsageFields, i \in 0..MaxCount, o \in 0..MaxCount,
          cc \in 0..MaxCount, cr \in 0..MaxCacheRead}
  \cup {Dict(has, NoCounts, "standard") : has \in SUBSET UsageFields}

Models == {"", DefaultModel, OtherModel}

TailRuns == {0, 1, 2, 3, 24, 40}

DescribePrefixes ==
  {<< >>, <<"H","o","l","a"," ">>, <<"inv_e","!">>, <<" ">>}

\* a prefix, a run of "a", a space and a run of "B"
DescribeTexts ==
  {p \o repeat("a", i) \o <<" ">> \o repeat("B", j) :
     p \in DescribePrefixes, i \in 0..MaxRun, j \in TailRuns}
  \cup Prompts

Vocabulary ==
  {<<"F","i","x">>, <<"d","e","p","l","o","y">>,
   <<"p","r","o","d","u","c","t","i","o","n">>, <<"l","o","g","i","n">>,
   <<"a","d","d">>, <<"h","e","l","l","o">>}

RECURSIVE sentence(_)
\* the words joined by single spaces
sentence(words) ==
  IF words = << >> THEN << >>
  ELSE IF Len(words) = 1 THEN words[1]
  ELSE words[1] \o <<" ">> \o sentence(Tail(words))

CategorizeTexts ==
  {sentence(ws) : ws \in UNION {[1..k -> Vocabulary] : k \in 0..MaxWords}}
  \cup Prompts

Call(fn, usage, model, content, file) ==
  [fn |-> fn, returned |-> FALSE, usage |-> usage, model |-> model,
   content |-> content, file |-> file]

Calls ==
  {Call("parse_usage_tokens", u, "", << >>, AbsentFile) : u \in Usages}
  \cup {Call("estimate_cost_usd", u, m, << >>, AbsentFile) :
          u \in Usages, m \in Models}
  \cup {Call("extract_session_description", NoneUsage, "", t, AbsentFile) :
          t \in DescribeTexts}
  \cup {Call("categorize_message", NoneUsage, "", t, AbsentFile) :
          t \in CategorizeTexts}
  \cup {Call("parse_transcript_for_last_assistant_message", NoneUsage, "",
             << >>, f) : f \in Files}

InitFunctions ==
  /\ call \in Calls
  /\ ret = 0
  /\ stdin = BadStdin("malformed")
  /\ pc = "off"
  /\ health = ""
  /\ assistant_msg = NoMessage
  /\ token_records = << >>
  /\ posts = << >>
  /\ exit_code = -1
  /\ now = 0
  /\ launches = 0
  /\ history = << >>

process == << stdin, pc, health, assistant_msg, token_records, posts,
              exit_code, now, launches, history >>

Returns(fn, value) ==
  /\ call.fn = fn
  /\ ~call.returned
  /\ ret' = value
  /\ call' = [call EXCEPT !.returned = TRUE]
  /\ UNCHANGED process

CallParseUsageTokens ==
  Returns("parse_usage_tokens", parse_usage_tokens(call.usage))

CallEstimateCostUsd ==
  \E tie_up \in BOOLEAN :
    Returns("estimate_cost_usd",
            estimate_cost_usd(call.usage, call.model, tie_up))

CallExtractSessionDescription ==
  Returns("extract_session_description",
          extract_session_description(call.content, default_max_length))

CallCategorizeMessage ==
  Returns("categorize_message", categorize_message(call.content))

CallParseTranscript ==
  \E tie_up \in BOOLEAN :
    Returns("parse_transcript_for_last_assistant_message",
            parse_transcript_for_last_assistant_message(call.file, tie_up))

NextFunctions ==
  \/ CallParseUsageTokens
  \/ CallEstimateCostUsd
  \/ CallExtractSessionDescription
  \/ CallCategorizeMessage
  \/ CallParseTranscript

SpecFunctions == InitFunctions /\ [][NextFunctions]_vars

(***************************************************************************)
(* What the claims speak of, stated from the transcript and the stdin      *)
(* object rather than from the scan.                                       *)
(***************************************************************************)
\* the lines of a transcript that are assistant lines with a message
IsAssistantLine(e) == e.raw = "json" /\ e.type = "assistant" /\ e.has_message

RECURSIVE ItemsText(_, _)
\* the text items of a line from item k on, in item order
ItemsText(items, k) ==
  IF k > Len(items) THEN << >>
  ELSE (IF items[k].type = "text" THEN items[k].text ELSE << >>)
       \o ItemsText(items, k + 1)

RECURSIVE ConcatenatedText(_, _)
\* the text of the first k lines: that of the assistant lines, in line order
ConcatenatedText(lines, k) ==
  IF k = 0 THEN << >>
  ELSE ConcatenatedText(lines, k - 1)
       \o (IF IsAssistantLine(lines[k]) THEN ItemsText(lines[k].content, 1)
           ELSE << >>)

\* the assistant lines whose usage is present with a non-zero field
SnapshotLines(lines) ==
  {k \in DOMAIN lines :
     /\ IsAssistantLine(lines[k])
     /\ lines[k].usage.tag = "dict"
     /\ \/ \E f \in lines[k].usage.has : lines[k].usage.n[f] # 0
        \/ lines[k].usage.tier # ""}

\* the token fields with a positive count in the last such snapshot
PositiveFields(lines) ==
  IF SnapshotLines(lines) = {} THEN {}
  ELSE LET last == CHOOSE k \in SnapshotLines(lines) :
                     \A j \in SnapshotLines(lines) : j <= k
       IN  {f \in lines[last].usage.has : lines[last].usage.n[f] > 0}

LastSnapshotCount(lines, f) ==
  LET last == CHOOSE k \in SnapshotLines(lines) :
                \A j \in SnapshotLines(lines) : j <= k
  IN  lines[last].usage.n[f]

TypeOfField ==
  [f \in UsageFields |->
     CASE f = "input_tokens" -> "input"
       [] f = "output_tokens" -> "output"
       [] f = "cache_creation_input_tokens" -> "cacheCreation"
       [] f = "cache_read_input_tokens" -> "cacheRead"]

FieldOrder ==
  << "input_tokens", "output_tokens", "cache_creation_input_tokens",
     "cache_read_input_tokens" >>

RankOfType(t) == CHOOSE i \in DOMAIN FieldOrder : TypeOfField[FieldOrder[i]] = t

IsStopWithTranscript ==
  /\ stdin.kind = "object"
  /\ stdin.hook_event_name = "Stop"
  /\ "hook_event_name" \in stdin.has
  /\ "transcript_path" \in stdin.has
  /\ stdin.file.state = "ok"

Hello == <<"H","e","l","l","o">>

(***************************************************************************)
(* C1: no POST is issued unless GET /health of the same invocation has     *)
(* returned 200; after a non-200 status or a network error the invocation  *)
(* has exited with no POST, no transcript scan and no token records.       *)
(***************************************************************************)
HealthGatesEveryPost ==
  /\ posts # << >> => health = "200"
  /\ pc \in {"dispatch", "send_assistant", "send_tokens", "send_description",
             "exit"} => health = "200"
  /\ health \in {"503", "network_error"} =>
       /\ pc = "exited"
       /\ posts = << >>
       /\ assistant_msg = NoMessage
       /\ token_records = << >>

\* a prompt that would be logged and described is dropped by a failed check
HealthFailureSeen ==
  /\ health = "network_error"
  /\ pc = "exited"
  /\ posts = << >>
  /\ stdin.hook_event_name = "UserPromptSubmit"
  /\ stdin.prompt = p_long

(***************************************************************************)
(* C2: every invocation terminates, and with exit code 0: it reaches the   *)
(* end of the process, and whenever it has ended its exit status is 0,     *)
(* whatever stdin, the health check, the transcript, the deliveries and    *)
(* the event name were.                                                    *)
(***************************************************************************)
InvocationExitsWithZero ==
  /\ <>(pc = "exited")
  /\ [](pc = "exited" => exit_code = 0)
  /\ [](pc # "exited" => exit_code = -1)

\* an invocation whose deliveries all failed has exited
FailedDeliveriesSeen ==
  /\ pc = "exited"
  /\ Len(posts) >= 2
  /\ \A i \in DOMAIN posts : ~posts[i].delivered

(***************************************************************************)
(* C3: a Stop event with a transcript that yields a message posts exactly  *)
(* one assistant record with the whole concatenated text and, after it,    *)
(* exactly one token_metric record per token type that is positive in the  *)
(* last usage snapshot with a non-zero field (none without such a          *)
(* snapshot), in mapping order.  The chunks "He" with empty usage and      *)
(* "llo" with input 10, output 5 give "Hello" and two token records.       *)
(***************************************************************************)
StopEmitsAssistantThenTokens ==
  (pc = "exit" /\ IsStopWithTranscript /\ ~assistant_msg.none) =>
    LET lines == stdin.file.lines
        positive == PositiveFields(lines)
    IN  /\ Len(posts) = 1 + Cardinality(positive)
        /\ posts[1].endpoint = <<"log">>
        /\ posts[1].message_type = "assistant"
        /\ posts[1].content = ConcatenatedText(lines, Len(lines))
        /\ \A i \in 2..Len(posts) :
             /\ posts[i].endpoint = <<"token-usage">>
             /\ posts[i].message_type = "token_metric"
             /\ posts[i].metadata.token_count > 0
        /\ \A f \in positive :
             \E i \in 2..Len(posts) :
               /\ posts[i].metadata.token_type = TypeOfField[f]
               /\ posts[i].metadata.token_count = LastSnapshotCount(lines, f)
        /\ \A i, j \in 2..Len(posts) :
             i < j => RankOfType(posts[i].metadata.token_type)
                        < RankOfType(posts[j].metadata.token_type)
        /\ lines = << ChunkHe, ChunkLlo >> =>
             /\ posts[1].content = Hello
             /\ Len(posts) = 3

\* the two-chunk example has run to its end
TwoChunkStopSeen ==
  /\ pc = "exit"
  /\ IsStopWithTranscript
  /\ stdin.file.lines = << ChunkHe, ChunkLlo >>
  /\ Len(posts) = 3
  /\ posts[1].content = Hello
  /\ posts[2].metadata.token_type = "input"
  /\ posts[3].metadata.token_type = "output"

(***************************************************************************)
(* C4: for every transcript the accumulated content is the concatenation,  *)
(* in line order and item order, of the text items of the assistant        *)
(* lines, whatever usage the lines carry and whatever lines lie between.   *)
(***************************************************************************)
ContentIsConcatenation ==
  (call.fn = "parse_transcript_for_last_assistant_message" /\ call.returned
     /\ call.file.state = "ok") =>
    /\ ret.content = ConcatenatedText(call.file.lines, Len(call.file.lines))
    /\ (ret.none <=>
          (ConcatenatedText(call.file.lines, Len(call.file.lines)) = << >>))

\* text, a user line, then text around a tool call with no usage at all
InterleavedChunksSeen ==
  /\ call.fn = "parse_transcript_for_last_assistant_message"
  /\ call.returned
  /\ call.file.lines = << ChunkLlo, UserLine, ChunkMixed >>
  /\ ret.content = <<"l","l","o","a","b">>

(***************************************************************************)
(* C5: parse_usage_tokens returns exactly one record {type, token_count}   *)
(* for each of the four fields whose value is positive, with the mapped    *)
(* type and that count, in the order input, output, cacheCreation,         *)
(* cacheRead, and none for a zero or absent field; None, a non-dict and a  *)
(* dict without a positive field give the empty list, a dict with exactly  *)
(* one positive field gives exactly one record.                            *)
(***************************************************************************)
TokenRecordsArePositiveFields ==
  (call.fn = "parse_usage_tokens" /\ call.returned) =>
    LET u == call.usage
        positive == IF u.tag = "dict"
                    THEN {f \in u.has : u.n[f] > 0} ELSE {}
    IN  /\ Len(ret) = Cardinality(positive)
        /\ \A f \in positive :
             \E i \in DOMAIN ret :
               ret[i] = [type |-> TypeOfField[f], token_count |-> u.n[f]]
        /\ \A i, j \in DOMAIN ret :
             i < j => RankOfType(ret[i].type) < RankOfType(ret[j].type)
        /\ positive = {} => ret = << >>
        /\ Cardinality(positive) = 1 => Len(ret) = 1

\* one positive field next to a zero one and two absent ones
OnePositiveFieldSeen ==
  /\ call.fn = "parse_usage_tokens"
  /\ call.returned
  /\ call.usage.has = {"output_tokens", "cache_read_input_tokens"}
  /\ call.usage.n["output_tokens"] = 0
  /\ call.usage.n["cache_read_input_tokens"] = 3
  /\ ret = << [type |-> "cacheRead", token_count |-> 3] >>

(***************************************************************************)
(* C6, as amended: estimate_cost_usd is the weighted sum of the four       *)
(* counts at the rates of the model's row (absent fields count 0), an      *)
(* unknown model priced at the default row, rounded to 6 decimals, and 0   *)
(* for None, a non-dict or an empty dict.  The weighted sum is linear in   *)
(* each field; the rounded figure is linear only to within the rounding:   *)
(* one more token of a field changes it by that field's rate give or take  *)
(* 0.000001.                                                               *)
(***************************************************************************)
RateOfField(model, f) ==
  LET row == IF model = DefaultModel THEN pricing[model] ELSE pricing[DefaultModel]
  IN  CASE f = "input_tokens" -> row.input
        [] f = "output_tokens" -> row.output
        [] f = "cache_read_input_tokens" -> row.cache_read
        [] f = "cache_creation_input_tokens" -> row.cache_write

\* sum over the four fields of count times rate, in units of 1e-7 USD
WeightedSum(u, model) ==
  usage_get(u, "input_tokens") * RateOfField(model, "input_tokens")
  + usage_get(u, "output_tokens") * RateOfField(model, "output_tokens")
  + usage_get(u, "cache_read_input_tokens") * RateOfField(model, "cache_read_input_tokens")
  + usage_get(u, "cache_creation_input_tokens")
      * RateOfField(model, "cache_creation_input_tokens")

\* the usage with one more token of field f
OneMore(u, f) ==
  [u EXCEPT !.has = u.has \cup {f}, !.n = [u.n EXCEPT ![f] = u.n[f] + 1]]

Distance(a, b) == IF a >= b THEN a - b ELSE b - a

CostIsRoundedWeightedSum ==
  (call.fn = "estimate_cost_usd" /\ call.returned) =>
    LET u == call.usage
    IN  /\ u.tag # "dict" => ret = 0
        /\ u.tag = "dict" =>
             /\ ret % 10 = 0
             /\ Distance(ret, WeightedSum(u, call.model)) <= 5
             /\ \A f \in UsageFields, tie_up \in BOOLEAN :
                  Distance(estimate_cost_usd(OneMore(u, f), call.model, tie_up),
                           ret + RateOfField(call.model, f)) <= 10
        /\ call.model # DefaultModel =>
             ret \in {estimate_cost_usd(u, DefaultModel, up) : up \in BOOLEAN}

\* an unknown model, a sum halfway between two millionths
UnknownModelCostSeen ==
  /\ call.fn = "estimate_cost_usd"
  /\ call.returned
  /\ call.model = OtherModel
  /\ call.usage.tag = "dict"
  /\ WeightedSum(call.usage, DefaultModel) = 165
  /\ ret = 170

(***************************************************************************)
(* C6, as claimed: besides being the rounded weighted sum, the figure      *)
(* estimate_cost_usd returns is linear in each usage field, one more token *)
(* of a field adding exactly that field's rate.                            *)
(***************************************************************************)
CostIsLinear ==
  (call.fn = "estimate_cost_usd" /\ call.returned /\ call.usage.tag = "dict") =>
    /\ Distance(ret, WeightedSum(call.usage, call.model)) <= 5
    /\ \A f \in UsageFields, tie_up \in BOOLEAN :
         estimate_cost_usd(OneMore(call.usage, f), call.model, tie_up)
           = ret + RateOfField(call.model, f)

(***************************************************************************)
(* C7: of two invocations with the same hook event, session and content    *)
(* no more than 5 seconds apart, the second is a duplicate and posts       *)
(* nothing (session events apart, which bypass the check).                 *)
(***************************************************************************)
DuplicateWithinWindowNotForwarded ==
  \A i \in DOMAIN history :
    (/\ history[i].stdin = stdin
     /\ now - history[i].at <= 5
     /\ stdin.kind = "object"
     /\ stdin.hook_event_name \notin {"SessionStart", "SessionEnd"})
    => posts = << >>

(***************************************************************************)
(* C8: with the health check passed, an invocation for SessionStart,       *)
(* SessionEnd, UserPromptSubmit, PreToolUse, PostToolUse or an event name  *)
(* the hook does not know ends having posted exactly one primary log       *)
(* record, of type system, system, user, tool_pre, tool and system.        *)
(***************************************************************************)
PrimaryTypeOf(event) ==
  CASE event \in {"SessionStart", "SessionEnd"} -> "system"
    [] event = "UserPromptSubmit" -> "user"
    [] event = "PreToolUse" -> "tool_pre"
    [] event = "PostToolUse" -> "tool"
    [] OTHER -> "system"

OnePrimaryRecordPerEvent ==
  (pc = "exit" /\ health = "200" /\ hook_event_of(stdin) # "Stop") =>
    Cardinality({i \in DOMAIN posts :
                   /\ posts[i].endpoint = <<"log">>
                   /\ posts[i].message_type = PrimaryTypeOf(hook_event_of(stdin))})
      = 1

(***************************************************************************)
(* C9: the description extract_session_description returns is at most 80   *)
(* characters long, the ellipsis of a truncated text included.             *)
(***************************************************************************)
DescriptionWithinMaxLength ==
  (call.fn = "extract_session_description" /\ call.returned) =>
    Len(ret) <= default_max_length

(***************************************************************************)
(* C10: categorize_message returns the category with the highest count of  *)
(* its keywords occurring in the lower-cased text, the first declared      *)
(* among those that share the highest count (Bug Fix, Feature, Config,     *)
(* Docs, UI/UX, Refactor, Debug, Database, Security, Deploy), and General  *)
(* when no keyword occurs.                                                 *)
(***************************************************************************)
DeclaredOrder ==
  << "Bug Fix", "Feature", "Config", "Docs", "UI/UX", "Refactor", "Debug",
     "Database", "Security", "Deploy" >>

\* whether the keyword occurs in the text at some position
Occurs(keyword, text) ==
  \E at \in 1..(Len(text) - Len(keyword) + 1) :
    SubSeq(text, at, at + Len(keyword) - 1) = keyword

\* how many keywords of each declared category occur in the text
CountsOf(text) ==
  [k \in DOMAIN DeclaredOrder |->
     LET i == CHOOSE c \in DOMAIN categories :
                categories[c].name = DeclaredOrder[k]
     IN  Cardinality({j \in DOMAIN categories[i].keywords :
                        Occurs(categories[i].keywords[j], text)})]

CategoryIsFirstHighestCount ==
  (call.fn = "categorize_message" /\ call.returned) =>
    \A count \in {CountsOf(lower(call.content))} :
      LET top == CHOOSE k \in DOMAIN DeclaredOrder :
                   /\ \A j \in DOMAIN DeclaredOrder : count[j] <= count[k]
                   /\ \A j \in 1..(k - 1) : count[j] < count[k]
      IN  /\ {categories[k].name : k \in DOMAIN categories}
               = {DeclaredOrder[k] : k \in DOMAIN DeclaredOrder}
          /\ IF count[top] = 0 THEN ret = General ELSE ret = DeclaredOrder[top]

\* "Fix add": one keyword of Bug Fix, one of Feature, the first declared wins
TiedCategoriesSeen ==
  /\ call.fn = "categorize_message"
  /\ call.returned
  /\ call.content = <<"F","i","x"," ","a","d","d">>
  /\ CountsOf(lower(call.content))[1] = 1
  /\ CountsOf(lower(call.content))[2] = 1
  /\ ret = "Bug Fix"

(***************************************************************************)
(* C11: for the prompt of more than 80 characters that begins "¡Hola!      *)
(* necesito ayuda con el login de usuarios", whose only category keyword   *)
(* is "login", the description update carries a capitalized description    *)
(* cut at a word boundary and ending in "...", and the category Security.  *)
(***************************************************************************)
\* the description is the text up to a space of the prompt, after its
\* leading mark, then the ellipsis
CutAtWordBoundary(description, prompt) ==
  \E k \in 1..Len(prompt) :
    /\ prompt[k] = " "
    /\ Len(description) = (k - 2) + 3
    /\ lower(SubSeq(description, 1, k - 2)) = lower(SubSeq(prompt, 2, k - 1))
    /\ SubSeq(description, k - 1, k + 1) = Ellipsis

LoginPromptIsSecurity ==
  (/\ pc = "exit"
   /\ health = "200"
   /\ hook_event_of(stdin) = "UserPromptSubmit"
   /\ "prompt" \in stdin.has
   /\ stdin.prompt = p_long) =>
    /\ Len(posts) = 2
    /\ posts[2].description[1] = "H"
    /\ CutAtWordBoundary(posts[2].description, stdin.prompt)
    /\ posts[2].category = "Security"

(***************************************************************************)
(* C12: a failed delivery is swallowed and never retried: when the         *)
(* invocation reaches its end it has POSTed each of its records exactly    *)
(* once, whatever the outcome of each POST was; a failed assistant record  *)
(* is followed by every token record, a failed user record by the          *)
(* description update.                                                     *)
(***************************************************************************)
\* how many records the invocation owes the sink for its event
RecordsDue(d) ==
  CASE hook_event_of(d) = "Stop" /\ transcript_path_of(d) # "" ->
         IF d.file.state = "ok"
            /\ ConcatenatedText(d.file.lines, Len(d.file.lines)) # << >>
         THEN 1 + Cardinality(PositiveFields(d.file.lines)) ELSE 0
    [] hook_event_of(d) = "UserPromptSubmit" ->
         IF Len(strip(prompt_of(d))) > 10 THEN 2 ELSE 1
    [] hook_event_of(d) \in {"PostToolUse", "SessionStart"} -> 1
    [] OTHER -> 0

\* a POST without the outcome of its delivery
Sent(post) == [post EXCEPT !.delivered = TRUE]

DeliveryFailuresAreSwallowed ==
  /\ \A i, j \in DOMAIN posts : i < j => Sent(posts[i]) # Sent(posts[j])
  /\ (pc \in {"exit", "exited"} /\ health = "200") =>
       Len(posts) = RecordsDue(stdin)

\* the assistant record failed, both token records were still sent, and the
\* first of them failed too
FailedAssistantThenTokensSeen ==
  /\ pc = "exit"
  /\ IsStopWithTranscript
  /\ stdin.file.lines = << ChunkHe, ChunkLlo >>
  /\ Len(posts) = 3
  /\ ~posts[1].delivered
  /\ ~posts[2].delivered
  /\ posts[3].message_type = "token_metric"
  /\ posts[3].delivered

(***************************************************************************)
(* C13: a line that fails to parse is skipped and never ends the scan: for *)
(* every transcript, with such lines at any position, the accumulated      *)
(* message (none or not, content, usage, uuid, timestamp, duration) is the *)
(* one the same transcript gives with those lines removed.                 *)
(***************************************************************************)
WithoutMalformed(file) ==
  [file EXCEPT !.lines = SelectSeq(file.lines, LAMBDA e : e.raw # "malformed")]

LastAssistantLine(lines) ==
  IF \E k \in DOMAIN lines : IsAssistantLine(lines[k])
  THEN CHOOSE k \in DOMAIN lines :
         /\ IsAssistantLine(lines[k])
         /\ \A j \in DOMAIN lines : IsAssistantLine(lines[j]) => j <= k
  ELSE 0

MetadataOfLastProcessedLine ==
  (call.fn = "parse_transcript_for_last_assistant_message" /\ call.returned
     /\ call.file.state = "ok" /\ ~ret.none) =>
    \A last \in {LastAssistantLine(call.file.lines)} :
      /\ ret.uuid = call.file.lines[last].uuid
      /\ ret.timestamp = call.file.lines[last].timestamp

IsStopScanned ==
  /\ stdin.kind = "object"
  /\ hook_event_of(stdin) = "Stop"
  /\ transcript_path_of(stdin) # ""
  /\ pc \in {"send_assistant", "send_tokens", "exit", "exited"}
  /\ health = "200"

NoAssistantText(file) ==
  \/ file.state \in {"absent", "unreadable"}
  \/ \A k \in DOMAIN file.lines :
       ~IsAssistantLine(file.lines[k])
       \/ \A i \in DOMAIN file.lines[k].content :
            \/ file.lines[k].content[i].type # "text"
            \/ file.lines[k].content[i].text = << >>

NoneExactlyWithoutAssistantText ==
  IsStopScanned =>
    /\ assistant_msg.none <=> NoAssistantText(stdin.file)
    /\ assistant_msg.none => pc \in {"exit", "exited"} /\ posts = << >>
    /\ ~assistant_msg.none =>
         /\ assistant_msg.content # << >>
         /\ pc \in {"exit", "exited"} => posts # << >>

\* a transcript of a user line and an assistant line that only calls a tool
OnlyUserAndToolLinesSeen ==
  /\ IsStopScanned
  /\ pc = "exited"
  /\ stdin.file.state = "ok"
  /\ stdin.file.lines = << UserLine, ChunkTool >>
  /\ assistant_msg.none
  /\ posts = << >>

(***************************************************************************)
(* C17: the model of the accumulated message is the model of the first     *)
(* assistant line that carries one: when the first line with text has no   *)
(* model and a later assistant line has one, the message has the later     *)
(* line's model.                                                           *)
(***************************************************************************)
\* the assistant lines that name a model
ModelLines(lines) ==
  {k \in DOMAIN lines : IsAssistantLine(lines[k]) /\ lines[k].model # ""}

ModelOfFirstLineCarryingOne ==
  (call.fn = "parse_transcript_for_last_assistant_message" /\ call.returned
     /\ call.file.state = "ok" /\ ~ret.none) =>
    \A carriers \in {ModelLines(call.file.lines)} :
      \A k \in carriers :
        (\A j \in carriers : k <= j) => ret.model = call.file.lines[k].model

(***************************************************************************)
(* C18: a UserPromptSubmit event, the health check passed, posts exactly   *)
(* one user record carrying the prompt as given, and after it exactly one  *)
(* session-description update when the prompt, trimmed of whitespace at    *)
(* both ends, is longer than 10 characters, and none when it is 10 or      *)
(* shorter; description and category are never computed for such a prompt. *)
(***************************************************************************)
\* the length of the text between its first and last non-blank character
TrimmedLength(text) ==
  LET inked == {i \in DOMAIN text : text[i] \notin {" ", "\t", "\n"}}
  IN  IF inked = {} THEN 0
      ELSE (CHOOSE i \in inked : \A j \in inked : j <= i)
           - (CHOOSE i \in inked : \A j \in inked : i <= j) + 1

IsPromptEvent ==
  /\ stdin.kind = "object"
  /\ hook_event_of(stdin) = "UserPromptSubmit"
  /\ "prompt" \in stdin.has
  /\ health = "200"

====
